---- MODULE Spec2Model ----
(***************************************************************************)
(* Model of the portfolio NAV engine of src/pfnav.py (calculate_pf_nav and *)
(* the classes it uses), and of process_json of src/main.py.               *)
(*                                                                         *)
(* Numbers are Python decimal.Decimal values under the default context:   *)
(* 28 significant digits, ROUND_HALF_EVEN.  A Decimal is modelled by its   *)
(* numeric value in canonical form, a record [neg, c, e] standing for      *)
(* (-1)^neg * c * 10^e, where the coefficient c is a sequence of decimal   *)
(* digits, most significant first, without leading or trailing zeros (the *)
(* empty sequence is zero).  Python compares Decimals numerically (==, !=),*)
(* so two Decimals are equal in Python iff their canonical forms are.      *)
(***************************************************************************)
EXTENDS Integers, Sequences, FiniteSets, TLC

(***************************************************************************)
(* Natural numbers of arbitrary size, as digit sequences.                  *)
(***************************************************************************)
MinOf(S) == CHOOSE x \in S : \A y \in S : x <= y

MaxOf(S) == CHOOSE x \in S : \A y \in S : x >= y

Zeros(k) == [i \in 1..k |-> 0]

\* strip leading zeros
StripLead(s) ==
    LET nz == {i \in 1..Len(s) : s[i] # 0}
    IN  IF nz = {} THEN <<>> ELSE SubSeq(s, MinOf(nz), Len(s))

\* strip trailing zeros
StripTrail(s) ==
    LET nz == {i \in 1..Len(s) : s[i] # 0}
    IN  IF nz = {} THEN <<>> ELSE SubSeq(s, 1, MaxOf(nz))

\* digit i of s, 0 to the left of the first digit
DigitAt(s, i) == IF i < 1 THEN 0 ELSE s[i]

\* the number written by the 4 (8) digits of s that end at index hi
Val4(s, hi) ==
    DigitAt(s, hi) + 10 * DigitAt(s, hi - 1) + 100 * DigitAt(s, hi - 2)
        + 1000 * DigitAt(s, hi - 3)

Val8(s, hi) == Val4(s, hi) + 10000 * Val4(s, hi - 4)

\* a <= b for digit sequences without leading zeros: by length, then by the
\* leading 8 digits, then by the first digit that differs
LeqN(a, b) ==
    IF Len(a) # Len(b) THEN Len(a) < Len(b)
    ELSE LET h  == IF Len(a) < 8 THEN Len(a) ELSE 8
             va == Val8(a, h)
             vb == Val8(b, h)
         IN  IF va # vb THEN va < vb
             ELSE LET d == {i \in 9..Len(a) : a[i] # b[i]}
                  IN  IF d = {} THEN TRUE ELSE a[MinOf(d)] < b[MinOf(d)]

\* v < 10^4 as 4 digits, v < 10^8 as 8 digits
Digits4(v) == <<(v \div 1000) % 10, (v \div 100) % 10, (v \div 10) % 10, v % 10>>

Digits8(v) == Digits4(v \div 10000) \o Digits4(v % 10000)

\* addition, 8 digits at a time from the right
RECURSIVE AddChunks(_, _, _, _, _)
AddChunks(a, b, j, nch, carry) ==
    IF j > nch THEN <<>>
    ELSE LET v == Val8(a, Len(a) - 8 * (j - 1)) + Val8(b, Len(b) - 8 * (j - 1)) + carry
         IN  AddChunks(a, b, j + 1, nch, v \div 100000000) \o Digits8(v % 100000000)

AddN(a, b) ==
    LET n == IF Len(a) > Len(b) THEN Len(a) ELSE Len(b)
    IN  StripLead(AddChunks(a, b, 1, (n \div 8) + 1, 0))

RECURSIVE SubChunks(_, _, _, _, _)
SubChunks(a, b, j, nch, borrow) ==
    IF j > nch THEN <<>>
    ELSE LET v == Val8(a, Len(a) - 8 * (j - 1)) - Val8(b, Len(b) - 8 * (j - 1)) - borrow
         IN  SubChunks(a, b, j + 1, nch, IF v < 0 THEN 1 ELSE 0)
                 \o Digits8(IF v < 0 THEN v + 100000000 ELSE v)

\* a - b, for a >= b
SubN(a, b) == StripLead(SubChunks(a, b, 1, (Len(a) + 7) \div 8, 0))

\* a * m for 0 <= m < 10^4, 4 digits at a time from the right
RECURSIVE MulChunks(_, _, _, _, _)
MulChunks(a, m, j, nch, carry) ==
    IF j > nch THEN Digits4(carry)
    ELSE LET v == Val4(a, Len(a) - 4 * (j - 1)) * m + carry
         IN  MulChunks(a, m, j + 1, nch, v \div 10000) \o Digits4(v % 10000)

MulSmall(a, m) == StripLead(MulChunks(a, m, 1, (Len(a) + 3) \div 4, 0))

\* a * b, b taken 4 digits at a time from the right
RECURSIVE MulFrom(_, _, _, _)
MulFrom(a, b, j, nch) ==
    IF j > nch THEN <<>>
    ELSE LET hi == MulFrom(a, b, j + 1, nch)
         IN  AddN(MulSmall(a, Val4(b, Len(b) - 4 * (j - 1))),
                  IF hi = <<>> THEN <<>> ELSE hi \o Zeros(4))

MulN(a, b) == MulFrom(a, b, 1, (Len(b) + 3) \div 4)

\* the number of the multiples mults[1] < .. < mults[9] that are <= cur
QuotDigit(mults, cur) ==
    IF cur = <<>> THEN 0
    ELSE IF LeqN(mults[5], cur)
    THEN IF LeqN(mults[7], cur)
         THEN IF LeqN(mults[8], cur) THEN (IF LeqN(mults[9], cur) THEN 9 ELSE 8) ELSE 7
         ELSE IF LeqN(mults[6], cur) THEN 6 ELSE 5
    ELSE IF LeqN(mults[3], cur)
         THEN IF LeqN(mults[4], cur) THEN 4 ELSE 3
         ELSE IF LeqN(mults[2], cur) THEN 2 ELSE IF LeqN(mults[1], cur) THEN 1 ELSE 0

\* the quotient digits q put before those of the result rest
JoinQ(q, rest) == [q |-> q \o rest.q, r |-> rest.r]

\* Long division of the digit sequence a by b # 0, a digit at a time: the
\* digit a[i] is brought down into the remainder r, giving cur, and the
\* quotient digit k is the number of the multiples b, 2b, .., 9b (mults)
\* that fit.  DivDigits does the digits i..last, DivFrom the blocks of 8
\* digits from digit i on.  The result is [q, r], q with its leading zeros.
RECURSIVE DivDigits(_, _, _, _, _)
DivDigit(a, mults, i, last, cur, k) ==
    JoinQ(<<k>>, DivDigits(a, mults, i + 1, last, IF k = 0 THEN cur ELSE SubN(cur, mults[k])))

DivBroughtDown(a, mults, i, last, cur) == DivDigit(a, mults, i, last, cur, QuotDigit(mults, cur))

DivDigits(a, mults, i, last, r) ==
    IF i > last THEN [q |-> <<>>, r |-> r]
    ELSE DivBroughtDown(a, mults, i, last,
                        IF r = <<>> /\ a[i] = 0 THEN <<>> ELSE Append(r, a[i]))

RECURSIVE DivFrom(_, _, _, _)
DivBlock(a, mults, last, blk) == JoinQ(blk.q, DivFrom(a, mults, last + 1, blk.r))

DivFrom(a, mults, i, r) ==
    IF i > Len(a) THEN [q |-> <<>>, r |-> r]
    ELSE LET last == IF i + 7 > Len(a) THEN Len(a) ELSE i + 7
         IN  DivBlock(a, mults, last, DivDigits(a, mults, i, last, r))

StripQ(d) == [q |-> StripLead(d.q), r |-> d.r]

DivModN(a, b) == StripQ(DivFrom(a, [m \in 1..9 |-> MulSmall(b, m)], 1, <<>>))

RECURSIVE DigitsOf(_)
DigitsOf(n) == IF n = 0 THEN <<>> ELSE Append(DigitsOf(n \div 10), n % 10)

(***************************************************************************)
(* decimal.Decimal under the default context (pfnav.py imports Decimal and *)
(* never changes the context): every operation returns the exact result    *)
(* rounded half-even to Prec significant digits.                           *)
(***************************************************************************)
Prec == 28

DecZero == [neg |-> FALSE, c |-> <<>>, e |-> 0]

\* canonical form of (-1)^neg * c * 10^e, c without leading zeros
Canon(neg, c, e) ==
    IF c = <<>> THEN DecZero
    ELSE LET t == StripTrail(c)
         IN  [neg |-> neg, c |-> t, e |-> e + (Len(c) - Len(t))]

\* Decimal._fix: round the exact coefficient c (sticky: a nonzero part below
\* the last digit of c was cut off) to Prec digits, ROUND_HALF_EVEN
Fix(neg, c, e, sticky) ==
    IF Len(c) <= Prec THEN Canon(neg, c, e)
    ELSE LET keep   == SubSeq(c, 1, Prec)
             d1     == c[Prec + 1]
             restNZ == sticky \/ \E i \in (Prec + 2)..Len(c) : c[i] # 0
             up     == \/ d1 > 5
                       \/ d1 = 5 /\ (restNZ \/ keep[Prec] % 2 = 1)
         IN  Canon(neg, IF up THEN AddN(keep, <<1>>) ELSE keep, e + (Len(c) - Prec))

\* Decimal(n) for an integer n >= 0
Dec(n) == Canon(FALSE, DigitsOf(n), 0)

IsZero(x) == x.c = <<>>

DecNeg(x) == IF IsZero(x) THEN x ELSE [x EXCEPT !.neg = ~x.neg]

\* Decimal.__add__
DecAdd(x, y) ==
    IF IsZero(x) THEN y
    ELSE IF IsZero(y) THEN x
    ELSE LET e  == IF x.e < y.e THEN x.e ELSE y.e
             cx == x.c \o Zeros(x.e - e)
             cy == y.c \o Zeros(y.e - e)
         IN  IF x.neg = y.neg THEN Fix(x.neg, AddN(cx, cy), e, FALSE)
             ELSE IF cx = cy THEN DecZero
             ELSE IF LeqN(cx, cy) THEN Fix(y.neg, SubN(cy, cx), e, FALSE)
             ELSE Fix(x.neg, SubN(cx, cy), e, FALSE)

\* Decimal.__mul__
DecMul(x, y) ==
    IF IsZero(x) \/ IsZero(y) THEN DecZero
    ELSE Fix(x.neg # y.neg, MulN(x.c, y.c), x.e + y.e, FALSE)

\* Decimal.__truediv__ for y # 0: the quotient to Prec + 1 digits or more,
\* the remainder kept as the sticky part, then rounded
FixQuot(neg, dm, e) == Fix(neg, dm.q, e, dm.r # <<>>)

DecDiv(x, y) ==
    IF IsZero(x) THEN DecZero
    ELSE LET shift == Len(y.c) - Len(x.c) + Prec + 1
         IN  FixQuot(x.neg # y.neg, DivModN(x.c \o Zeros(shift), y.c), x.e - y.e - shift)

(***************************************************************************)
(* Transaction (pfnav.py).  Dates are day numbers; units and nav are       *)
(* Decimals.                                                               *)
(***************************************************************************)
\* Transaction.sign: +1 for BUY and -1 for SELL
sign(t) == IF t.txn_type = "BUY" THEN 1 ELSE -1

\* int * Decimal, for the two ints sign() returns
IntTimes(k, x) == IF k = 1 THEN x ELSE DecNeg(x)

\* Transaction.signed_units
signed_units(t) == IntTimes(sign(t), t.units)

\* Transaction.value: units * NAV
value(t) == DecMul(t.units, t.nav)

\* Transaction.signed_value
signed_value(t) == IntTimes(sign(t), value(t))

(***************************************************************************)
(* NavManager: navs maps a date to a map from fund name to NAV.            *)
(***************************************************************************)
RECURSIVE SortedSeq(_)
SortedSeq(S) == IF S = {} THEN <<>> ELSE <<MinOf(S)>> \o SortedSeq(S \ {MinOf(S)})

\* a variant that hands the dates out latest first
get_all_dates_sorted_Desc(nav_mgr) ==
    LET a == SortedSeq(DOMAIN nav_mgr.navs)
    IN  [i \in 1..Len(a) |-> a[Len(a) + 1 - i]]

\* NavManager.get_all_dates_sorted
get_all_dates_sorted(nav_mgr) == SortedSeq(DOMAIN nav_mgr.navs)

\* curr_mf_units is a defaultdict(Decimal): a sequence of [fund, units] items
\* in insertion order; a fund that is not a key reads as Decimal() = 0
HasKey(d, f) == \E i \in 1..Len(d) : d[i].fund = f

DictGet(d, f) ==
    IF HasKey(d, f) THEN d[CHOOSE i \in 1..Len(d) : d[i].fund = f].units ELSE DecZero

\* d[f] += x
DictAdd(d, f, x) ==
    IF HasKey(d, f)
    THEN [i \in 1..Len(d) |->
             IF d[i].fund = f THEN [d[i] EXCEPT !.units = DecAdd(d[i].units, x)] ELSE d[i]]
    ELSE Append(d, [fund |-> f, units |-> DecAdd(DecZero, x)])

\* sum(units * self.navs[date][fund] for fund, units in mf_units.items()),
\* which starts from 0 and adds the items in order
RECURSIVE SumItems(_, _, _)
SumItems(row, items, n) ==
    IF n = 0 THEN DecZero
    ELSE DecAdd(SumItems(row, items, n - 1), DecMul(items[n].units, row[items[n].fund]))

\* a variant that leaves a fund without a price out of the value
get_portfolio_value_Skip(nav_mgr, date, mf_units) ==
    LET priced == SelectSeq(mf_units, LAMBDA it : it.fund \in DOMAIN nav_mgr.navs[date])
    IN  [exc |-> "", v |-> SumItems(nav_mgr.navs[date], priced, Len(priced))]

\* NavManager.get_portfolio_value: a KeyError when navs[date] has no entry for
\* a fund of mf_units
get_portfolio_value(nav_mgr, date, mf_units) ==
    IF \E i \in 1..Len(mf_units) : mf_units[i].fund \notin DOMAIN nav_mgr.navs[date]
    THEN [exc |-> "KeyError", v |-> DecZero]
    ELSE [exc |-> "", v |-> SumItems(nav_mgr.navs[date], mf_units, Len(mf_units))]

(***************************************************************************)
(* calculate_pf_nav, step by step.  The engine's locals are a record       *)
(* [portfolio_units, curr_mf_units, current_nav, pf_navs, exc], exc the    *)
(* exception raised ("" for none).                                         *)
(***************************************************************************)
\* a variant that takes the dates of the table past current_date as well
RelevantDates_NoHorizon(txns, nav_mgr) ==
    SelectSeq(get_all_dates_sorted(nav_mgr), LAMBDA d : txns[1].date <= d)

\* a variant that takes the dates of the table before the first transaction
\* as well
RelevantDates_NoStart(txns, nav_mgr) ==
    SelectSeq(get_all_dates_sorted(nav_mgr), LAMBDA d : d <= nav_mgr.current_date)

\* a variant that starts at the earliest date of the list
RelevantDates_Earliest(txns, nav_mgr) ==
    SelectSeq(get_all_dates_sorted(nav_mgr),
              LAMBDA d : MinOf({txns[i].date : i \in 1..Len(txns)}) <= d
                             /\ d <= nav_mgr.current_date)

\* relevant_dates (line 153)
RelevantDates(txns, nav_mgr) ==
    SelectSeq(get_all_dates_sorted(nav_mgr),
              LAMBDA d : txns[1].date <= d /\ d <= nav_mgr.current_date)

\* a variant that files each transaction under the day before its date
TxnsByDate_DayEarly(txns, date) == SelectSeq(txns, LAMBDA t : t.date = date + 1)

\* txns_by_date[date] (lines 158-160)
TxnsByDate(txns, date) == SelectSeq(txns, LAMBDA t : t.date = date)

\* done: the invocations made before the one under way, each with its
\* arguments and what it left
VARIABLE done

\* a variant whose pf_navs is one list shared by the invocations: it starts
\* with the entries the invocation before left in it
InitialLocals_Shared(base_nav) ==
    [portfolio_units |-> DecZero, curr_mf_units |-> <<>>, current_nav |-> base_nav,
     pf_navs |-> IF done = <<>> THEN <<>> ELSE done[Len(done)].outcome[2], exc |-> ""]

\* a variant that starts from the default base NAV whatever the argument
InitialLocals_Default(base_nav) ==
    [portfolio_units |-> DecZero, curr_mf_units |-> <<>>, current_nav |-> Dec(1000),
     pf_navs |-> <<>>, exc |-> ""]

\* lines 164-168
InitialLocals(base_nav) ==
    [portfolio_units |-> DecZero, curr_mf_units |-> <<>>, current_nav |-> base_nav,
     pf_navs |-> <<>>, exc |-> ""]

\* lines 172-176: the NAV of a date
SetNav(st, date, nav) ==
    [st EXCEPT !.current_nav = nav,
               !.pf_navs = Append(st.pf_navs, [date |-> date, nav |-> nav])]

ValuedNav(st, date, pv) ==
    IF pv.exc # "" THEN [st EXCEPT !.exc = pv.exc]
    ELSE SetNav(st, date, DecDiv(pv.v, st.portfolio_units))

NavOfDate(st, nav_mgr, date) ==
    IF ~IsZero(st.portfolio_units)
    THEN ValuedNav(st, date, get_portfolio_value(nav_mgr, date, st.curr_mf_units))
    ELSE [st EXCEPT !.pf_navs = Append(st.pf_navs, [date |-> date, nav |-> st.current_nav])]

\* a variant that, with portfolio_units zero, converts at the first NAV
\* recorded, the base NAV
ApplyOne_AtBaseNav(st, t) ==
    [st EXCEPT !.portfolio_units =
                   DecAdd(st.portfolio_units,
                          DecDiv(signed_value(t),
                                 IF IsZero(st.portfolio_units) THEN st.pf_navs[1].nav
                                 ELSE st.current_nav)),
               !.curr_mf_units = DictAdd(st.curr_mf_units, t.mf_name, signed_units(t))]

\* a variant that recomputes the NAV before each transaction, from the units
\* held valued at the transaction's price
ApplyOne_Revalued(st, t) ==
    [st EXCEPT !.portfolio_units =
                   DecAdd(st.portfolio_units,
                          DecDiv(signed_value(t),
                                 IF IsZero(st.portfolio_units) THEN st.current_nav
                                 ELSE DecDiv(DecMul(DictGet(st.curr_mf_units, t.mf_name), t.nav),
                                             st.portfolio_units))),
               !.curr_mf_units = DictAdd(st.curr_mf_units, t.mf_name, signed_units(t))]

\* lines 181-182: one transaction of the date.  Decimal division by zero
\* raises DivisionByZero (InvalidOperation for 0 / 0).
ApplyOne(st, t) ==
    IF IsZero(st.current_nav)
    THEN [st EXCEPT !.exc = IF IsZero(signed_value(t)) THEN "InvalidOperation"
                             ELSE "DivisionByZero"]
    ELSE [st EXCEPT !.portfolio_units =
                        DecAdd(st.portfolio_units, DecDiv(signed_value(t), st.current_nav)),
                    !.curr_mf_units = DictAdd(st.curr_mf_units, t.mf_name, signed_units(t))]

\* lines 179-182: the first n transactions ts of a date, in list order
RECURSIVE ApplyAll(_, _, _)
ApplyAll(st, ts, n) ==
    IF n = 0 THEN st
    ELSE LET s == ApplyAll(st, ts, n - 1)
         IN  IF s.exc # "" THEN s ELSE ApplyOne(s, ts[n])

\* lines 170-182: one date, its NAV first and its transactions after
DayStep(st, txns, nav_mgr, date) ==
    LET s == NavOfDate(st, nav_mgr, date)
    IN  IF s.exc # "" THEN s
        ELSE ApplyAll(s, TxnsByDate(txns, date), Len(TxnsByDate(txns, date)))

\* lines 170-182: the first n of the dates
RECURSIVE WalkDates(_, _, _, _, _)
WalkDates(txns, nav_mgr, base_nav, dates, n) ==
    IF n = 0 THEN InitialLocals(base_nav)
    ELSE LET s == WalkDates(txns, nav_mgr, base_nav, dates, n - 1)
         IN  IF s.exc # "" THEN s ELSE DayStep(s, txns, nav_mgr, dates[n])

\* calculate_pf_nav as a function of its arguments: the locals at the end of
\* the call, exc = "" when it returned pf_navs
calculate_pf_nav(txns, nav_mgr, base_nav) ==
    IF txns = <<>> \/ RelevantDates(txns, nav_mgr) = <<>>
    THEN [InitialLocals(base_nav) EXCEPT !.exc = "ValueError"]
    ELSE WalkDates(txns, nav_mgr, base_nav, RelevantDates(txns, nav_mgr),
                   Len(RelevantDates(txns, nav_mgr)))

(***************************************************************************)
(* calculate_pf_nav2 (lines 66-136), the second implementation.  Its       *)
(* locals are a record [curr_units, pf_navs, last_nav, initial_pf_value,   *)
(* curr_pf_value, normalized_nav, exc].                                    *)
(***************************************************************************)
\* x > 0
IsPos(x) == ~IsZero(x) /\ ~x.neg

\* _calculate_portfolio_value (lines 61-63): the funds with units other than
\* 0 only; a KeyError when navs has no entry for one of them
calculate_portfolio_value(units, navs) ==
    IF \E i \in 1..Len(units) : ~IsZero(units[i].units) /\ units[i].fund \notin DOMAIN navs
    THEN [exc |-> "KeyError", v |-> DecZero]
    ELSE [exc |-> "",
          v |-> SumItems(navs, SelectSeq(units, LAMBDA it : ~IsZero(it.units)),
                         Len(SelectSeq(units, LAMBDA it : ~IsZero(it.units))))]

\* lines 99-100: curr_units after the first n of the transactions ts
RECURSIVE AddUnits(_, _, _)
AddUnits(units, ts, n) ==
    IF n = 0 THEN units
    ELSE DictAdd(AddUnits(units, ts, n - 1), ts[n].mf_name, signed_units(ts[n]))

\* lines 101-107: the baseline, from the value pv of the first date
Baseline(units, date, base_nav, pv) ==
    [curr_units |-> units,
     pf_navs |-> <<[date |-> date, nav |-> base_nav]>>,
     last_nav |-> base_nav,
     initial_pf_value |-> IF IsZero(pv.v) THEN Dec(1) ELSE pv.v,
     curr_pf_value |-> DecZero,
     normalized_nav |-> base_nav,
     exc |-> pv.exc]

\* lines 98-107: the first date
FirstDate2(txns, nav_mgr, base_nav, date) ==
    Baseline(AddUnits(<<>>, TxnsByDate(txns, date), Len(TxnsByDate(txns, date))), date, base_nav,
             calculate_portfolio_value(
                 AddUnits(<<>>, TxnsByDate(txns, date), Len(TxnsByDate(txns, date))),
                 nav_mgr.navs[date]))

\* lines 116-117 and 122
SetNav2(st, date, pv, nav) ==
    [st EXCEPT !.curr_pf_value = pv.v, !.normalized_nav = nav, !.last_nav = nav,
               !.pf_navs = Append(st.pf_navs, [date |-> date, nav |-> nav])]

\* lines 112-122: the NAV of a later date, from the value pv of the date
NavOfDate2(st, base_nav, date, pv) ==
    IF pv.exc # "" THEN [st EXCEPT !.exc = pv.exc]
    ELSE IF IsPos(pv.v) \/ IsPos(st.initial_pf_value)
    THEN IF IsZero(st.initial_pf_value)
         THEN [st EXCEPT !.exc = "DivisionByZero"]
         ELSE SetNav2(st, date, pv, DecMul(DecDiv(pv.v, st.initial_pf_value), base_nav))
    ELSE [st EXCEPT !.curr_pf_value = pv.v, !.normalized_nav = st.last_nav,
                    !.pf_navs = Append(st.pf_navs, [date |-> date, nav |-> st.last_nav])]

\* x / y * base_nav into initial_pf_value (lines 131 and 134-135), added to
\* it when add; Decimal division by zero raises
Rebase(st, x, y, base_nav, add) ==
    IF IsZero(y)
    THEN [st EXCEPT !.exc = IF IsZero(x) THEN "InvalidOperation" ELSE "DivisionByZero"]
    ELSE [st EXCEPT !.initial_pf_value =
                        IF add THEN DecAdd(st.initial_pf_value, DecMul(DecDiv(x, y), base_nav))
                        ELSE DecMul(DecDiv(x, y), base_nav)]

\* lines 126-135: one transaction of a later date
ApplyOne2(st, base_nav, t) ==
    IF IsZero(st.curr_pf_value) /\ t.txn_type = "BUY"
    THEN Rebase([st EXCEPT !.curr_units = DictAdd(st.curr_units, t.mf_name, signed_units(t))],
                DecMul(t.units, t.nav), st.last_nav, base_nav, FALSE)
    ELSE Rebase([st EXCEPT !.curr_units = DictAdd(st.curr_units, t.mf_name, signed_units(t))],
                DecMul(signed_units(t), t.nav), st.normalized_nav, base_nav, TRUE)

\* lines 125-135: the first n transactions ts of a later date, in list order
RECURSIVE ApplyAll2(_, _, _, _)
ApplyAll2(st, base_nav, ts, n) ==
    IF n = 0 THEN st
    ELSE LET s == ApplyAll2(st, base_nav, ts, n - 1)
         IN  IF s.exc # "" THEN s ELSE ApplyOne2(s, base_nav, ts[n])

\* lines 110-135: one later date, its NAV first and its transactions after
DayStep2(st, txns, nav_mgr, base_nav, date) ==
    LET s == NavOfDate2(st, base_nav, date,
                        calculate_portfolio_value(st.curr_units, nav_mgr.navs[date]))
    IN  IF s.exc # "" THEN s
        ELSE ApplyAll2(s, base_nav, TxnsByDate(txns, date), Len(TxnsByDate(txns, date)))

\* lines 97-135: the first n of the dates
RECURSIVE WalkDates2(_, _, _, _, _)
WalkDates2(txns, nav_mgr, base_nav, dates, n) ==
    IF n = 1 THEN FirstDate2(txns, nav_mgr, base_nav, dates[1])
    ELSE LET s == WalkDates2(txns, nav_mgr, base_nav, dates, n - 1)
         IN  IF s.exc # "" THEN s ELSE DayStep2(s, txns, nav_mgr, base_nav, dates[n])

\* calculate_pf_nav2 as a function of its arguments: the locals at the end
\* of the call, exc = "" when it returned pf_navs.  No transactions raise
\* ValueError (lines 79-80), no relevant date IndexError (line 98).
calculate_pf_nav2(txns, nav_mgr, base_nav) ==
    IF txns = <<>> THEN [pf_navs |-> <<>>, exc |-> "ValueError"]
    ELSE IF RelevantDates(txns, nav_mgr) = <<>> THEN [pf_navs |-> <<>>, exc |-> "IndexError"]
    ELSE WalkDates2(txns, nav_mgr, base_nav, RelevantDates(txns, nav_mgr),
                    Len(RelevantDates(txns, nav_mgr)))

(***************************************************************************)
(* The inputs of a call.                                                   *)
(***************************************************************************)
MaxDate == 3

MaxTxns == 3

\* invocations in a row
MaxCalls == 3

Dates == 1..MaxDate

Funds == {"MF1", "MF2"}

\* the fund prices of the table: MF1 goes 3, 7, 3, .. and MF2 7, 3, 7, ..
Price(d, f) == IF (f = "MF1") = (d % 2 = 1) THEN 3 ELSE 7

\* the other price
OffPrice(d, f) == 10 - Price(d, f)

Txn(f, d, k, u, p) ==
    [mf_name |-> f, date |-> d, txn_type |-> k, units |-> Dec(u), nav |-> Dec(p)]

\* what is bought and sold: <<fund, type, units>>
Shapes ==
    {<<"MF1", "BUY", 3>>, <<"MF1", "SELL", 3>>, <<"MF1", "SELL", 1>>,
     <<"MF2", "BUY", 1>>, <<"MF2", "SELL", 1>>}

\* transactions at the table's price; those of MF1 at the table's price and
\* at the other price
MarketTxns == {Txn(s[1], d, s[2], s[3], Price(d, s[1])) : s \in Shapes, d \in Dates}

Mf1Txns ==
    {Txn(s[1], d, s[2], s[3], IF off THEN OffPrice(d, s[1]) ELSE Price(d, s[1])) :
        s \in {x \in Shapes : x[1] = "MF1"}, d \in Dates, off \in BOOLEAN}

SeqsUpTo(S, n) == UNION {[1..k -> S] : k \in 0..n}

\* "transaction dates are sorted in ascending order (i.e. oldest first)"
SortedByDate(l) == \A i \in 1..(Len(l) - 1) : l[i].date <= l[i + 1].date

\* units of fund f held after the first n transactions of l (the inputs'
\* units are whole numbers)
UnitsInt(t) == IF t.units = Dec(3) THEN 3 ELSE 1

RECURSIVE HeldInt(_, _, _)
HeldInt(l, f, n) ==
    IF n = 0 THEN 0
    ELSE HeldInt(l, f, n - 1) + (IF l[n].mf_name = f THEN sign(l[n]) * UnitsInt(l[n]) ELSE 0)

\* no SELL exceeds the units held of its fund
NoOversell(l) == \A n \in 1..Len(l) : \A f \in Funds : HeldInt(l, f, n) >= 0

FullTable == [d \in Dates |-> [f \in Funds |-> Dec(Price(d, f))]]

\* the table without a date, and without the price of one fund on one date
WithoutDate(d) == [x \in Dates \ {d} |-> FullTable[x]]

WithoutPrice(d, f) ==
    [x \in Dates |-> IF x = d THEN [g \in Funds \ {f} |-> FullTable[x][g]] ELSE FullTable[x]]

FullNavMgr == [navs |-> FullTable, current_date |-> MaxDate]

OddNavMgrs ==
    {[navs |-> WithoutDate(d), current_date |-> MaxDate] : d \in Dates}
        \cup {[navs |-> WithoutPrice(d, "MF2"), current_date |-> MaxDate] : d \in Dates}
        \cup {[navs |-> FullTable, current_date |-> c] : c \in 0..(MaxDate - 1)}

BaseNavs == {Dec(1000), Dec(9)}

\* the lists over S of at most n transactions that keep the assumptions of
\* calculate_pf_nav: sorted, nothing oversold
ValidLists(S, n) == {x \in SeqsUpTo(S, n) : x # <<>> /\ SortedByDate(x) /\ NoOversell(x)}

\* The calls.  With the full table and transactions at its prices: the valid
\* lists of fewer than MaxTxns transactions, from the default base NAV, and
\* from either base NAV the valid lists of at most two and those of three
\* transactions of MF1.
ValidCalls ==
    {[txns |-> l, nav_mgr |-> FullNavMgr, base_nav |-> Dec(1000)] :
        l \in ValidLists(MarketTxns, MaxTxns - 1)}
        \cup {[txns |-> l, nav_mgr |-> FullNavMgr, base_nav |-> b] :
                 l \in ValidLists(MarketTxns, 2) \cup ValidLists(MarketTxns \cap Mf1Txns, 3),
                 b \in BaseNavs}

\* With an odd table: the valid lists of at most two purchases and of sales
\* of MF2.  With the full table: every list of at most two transactions of
\* MF1 at either price, in any order, the empty list among them, and every
\* list of three purchases of MF1 at the table's prices, in any order.
ShortCalls ==
    {[txns |-> l, nav_mgr |-> m, base_nav |-> Dec(1000)] :
        l \in ValidLists({t \in MarketTxns : t.txn_type = "BUY" \/ t.mf_name = "MF2"}, 2),
        m \in OddNavMgrs}
        \cup {[txns |-> l, nav_mgr |-> FullNavMgr, base_nav |-> Dec(1000)] :
                 l \in SeqsUpTo(Mf1Txns, 2)
                         \cup [1..3 -> {t \in MarketTxns \cap Mf1Txns : t.txn_type = "BUY"}]}

\* With the table that lacks a price of MF2: a purchase of MF1, then a
\* purchase of MF2 and the sale of all of it.
WithdrawnFundCalls ==
    {[txns |-> l, nav_mgr |-> [navs |-> WithoutPrice(d, "MF2"), current_date |-> MaxDate],
      base_nav |-> Dec(1000)] :
        l \in {x \in [1..3 -> MarketTxns] :
                  /\ x[1].mf_name = "MF1" /\ x[1].txn_type = "BUY"
                  /\ x[2].mf_name = "MF2" /\ x[2].txn_type = "BUY"
                  /\ x[3].mf_name = "MF2" /\ x[3].txn_type = "SELL"
                  /\ SortedByDate(x)},
        d \in Dates}

Calls == ValidCalls \cup ShortCalls \cup WithdrawnFundCalls

\* The invocations that are followed by others: those of the valid lists of
\* at most two transactions of MF1 dated on the first two days, from the
\* base NAV 9, and two that raise (no transactions; a purchase after a full
\* withdrawal).
OtherCalls ==
    {[txns |-> <<>>, nav_mgr |-> FullNavMgr, base_nav |-> Dec(1000)],
     [txns |-> <<Txn("MF1", 1, "BUY", 3, Price(1, "MF1")), Txn("MF1", 2, "SELL", 3, Price(2, "MF1")),
                 Txn("MF1", 3, "BUY", 3, Price(3, "MF1"))>>,
      nav_mgr |-> FullNavMgr, base_nav |-> Dec(1000)]}

RepeatCalls ==
    OtherCalls \cup {[txns |-> l, nav_mgr |-> FullNavMgr, base_nav |-> Dec(9)] :
                        l \in ValidLists({t \in MarketTxns \cap Mf1Txns : t.date <= 2}, 2)}

(***************************************************************************)
(* process_json (src/main.py).  A JSON value is a record [kind, n, items]: *)
(* a number n, an array, or an object whose items are its members in       *)
(* order, records [key, value].  The members of a top-level object have    *)
(* JSON values as values; those of an object inside it have numbers.  A    *)
(* Python dict is such a sequence of items with distinct keys, in          *)
(* insertion order.  A line of a file is a record [kind, doc]: the text of *)
(* a JSON document doc (whose objects may repeat a key), a blank line, or  *)
(* text that is not JSON.                                                  *)
(***************************************************************************)
Num(n) == [kind |-> "number", n |-> n, items |-> <<>>]

Arr == [kind |-> "array", n |-> 0, items |-> <<>>]

Obj(items) == [kind |-> "object", n |-> 0, items |-> items]

Item(k, v) == [key |-> k, value |-> v]

\* k in d
HasItem(d, k) == \E i \in 1..Len(d) : d[i].key = k

\* d[k], for k in d
ItemOf(d, k) == d[CHOOSE i \in 1..Len(d) : d[i].key = k].value

\* d[k] = v: a key already in d keeps its place and takes the new value
SetItem(d, k, v) ==
    IF HasItem(d, k)
    THEN [i \in 1..Len(d) |-> IF d[i].key = k THEN Item(k, v) ELSE d[i]]
    ELSE Append(d, Item(k, v))

\* the dict json.loads builds from the first n members of an object of
\* numbers: a repeated key keeps its last value
RECURSIVE LoadMembers(_, _)
LoadMembers(items, n) ==
    IF n = 0 THEN <<>>
    ELSE SetItem(LoadMembers(items, n - 1), items[n].key, items[n].value)

\* json.loads of a value inside the top-level object
LoadValue(v) ==
    IF v.kind = "object" THEN Obj(LoadMembers(v.items, Len(v.items))) ELSE v

\* the dict json.loads builds from the first n members of a top-level object
RECURSIVE LoadTop(_, _)
LoadTop(items, n) ==
    IF n = 0 THEN <<>>
    ELSE SetItem(LoadTop(items, n - 1), items[n].key, LoadValue(items[n].value))

\* json.loads(line.strip()), line 7: the value of the document, and
\* JSONDecodeError for a blank line and for text that is not JSON
loads(line) ==
    IF line.kind # "json" THEN [exc |-> "JSONDecodeError", v |-> Num(0)]
    ELSE IF line.doc.kind = "object"
    THEN [exc |-> "", v |-> Obj(LoadTop(line.doc.items, Len(line.doc.items)))]
    ELSE [exc |-> "", v |-> line.doc]

\* json.dump(obj, outfile) and the newline, lines 23-26: the line written
dump(d) == [kind |-> "json", doc |-> Obj(d)]

\* isinstance(value, dict) and any(k in value for k in keys_to_retain), line 12
Splits(v, keys_to_retain) ==
    /\ v.kind = "object"
    /\ \E i \in 1..Len(keys_to_retain) : HasItem(v.items, keys_to_retain[i])

\* {k: value[k] for k in keys_to_retain if k in value}, line 13: the first n
\* of keys_to_retain
RECURSIVE retained(_, _, _)
retained(d, keys_to_retain, n) ==
    IF n = 0 THEN <<>>
    ELSE IF HasItem(d, keys_to_retain[n])
    THEN SetItem(retained(d, keys_to_retain, n - 1), keys_to_retain[n],
                 ItemOf(d, keys_to_retain[n]))
    ELSE retained(d, keys_to_retain, n - 1)

\* a variant that keeps every member of value
remaining_All(d, keys_to_retain) == d

\* {k: v for k, v in value.items() if k not in keys_to_retain}, line 14
remaining(d, keys_to_retain) ==
    SelectSeq(d, LAMBDA it : \A i \in 1..Len(keys_to_retain) : keys_to_retain[i] # it.key)

\* lines 15-18: the two parts of a value under its key, an empty part left out
SplitInto(out, k, ret, rem) ==
    [o1 |-> IF ret # <<>> THEN SetItem(out.o1, k, Obj(ret)) ELSE out.o1,
     o2 |-> IF rem # <<>> THEN SetItem(out.o2, k, Obj(rem)) ELSE out.o2]

\* lines 12-21: output_obj1 and output_obj2 after one member
SplitOne(out, it, keys_to_retain) ==
    IF Splits(it.value, keys_to_retain)
    THEN SplitInto(out, it.key,
                   retained(it.value.items, keys_to_retain, Len(keys_to_retain)),
                   remaining(it.value.items, keys_to_retain))
    ELSE [o1 |-> SetItem(out.o1, it.key, it.value), o2 |-> SetItem(out.o2, it.key, it.value)]

\* lines 8-21: output_obj1 and output_obj2 after the first n members
RECURSIVE SplitItems(_, _, _)
SplitItems(d, keys_to_retain, n) ==
    IF n = 0 THEN [o1 |-> <<>>, o2 |-> <<>>]
    ELSE SplitOne(SplitItems(d, keys_to_retain, n - 1), d[n], keys_to_retain)

\* lines 7-26 for the parsed line p: the two lines written, or the exception
\* (json_obj.items() of a value that is no dict raises AttributeError)
SplitParsed(p, keys_to_retain) ==
    IF p.exc # "" THEN [exc |-> p.exc, o1 |-> <<>>, o2 |-> <<>>]
    ELSE IF p.v.kind # "object" THEN [exc |-> "AttributeError", o1 |-> <<>>, o2 |-> <<>>]
    ELSE [exc |-> "",
          o1 |-> SplitItems(p.v.items, keys_to_retain, Len(p.v.items)).o1,
          o2 |-> SplitItems(p.v.items, keys_to_retain, Len(p.v.items)).o2]

\* lines 7-26: one line of the input
SplitLine(line, keys_to_retain) == SplitParsed(loads(line), keys_to_retain)

\* The runs of process_json.  Files of at most MaxLines lines; top-level
\* objects of at most MaxMembers members.
MaxLines == 2

MaxMembers == 2

\* the values of the members of a top-level object: a number, the empty
\* object, an object of one member, and one that repeats a key
Values ==
    {Num(1), Obj(<<>>), Obj(<<Item("timestamp", 1)>>),
     Obj(<<Item("volume", 2), Item("timestamp", 1), Item("volume", 3)>>)}

TopItems == {Item(k, v) : k \in {"Another:Key", "_meta"}, v \in Values}

BlankLine == [kind |-> "blank", doc |-> Num(0)]

\* the lines: the top-level objects, two documents that are no objects, the
\* blank line, and text that is not JSON
Lines ==
    {[kind |-> "json", doc |-> Obj(items)] : items \in SeqsUpTo(TopItems, MaxMembers)}
        \cup {[kind |-> "json", doc |-> Num(5)], [kind |-> "json", doc |-> Arr],
              BlankLine, [kind |-> "text", doc |-> Num(0)]}

\* the lines around: the blank line and a line with an object to split
PlainLines ==
    {BlankLine,
     [kind |-> "json",
      doc |-> Obj(<<Item("Another:Key", Obj(<<Item("timestamp", 1), Item("volume", 2)>>))>>)]}

\* the input files: the empty file, and one line of Lines among lines of
\* PlainLines
Files ==
    {<<>>} \cup
    {ht[1] \o <<x>> \o ht[2] :
        x \in Lines,
        ht \in {p \in SeqsUpTo(PlainLines, MaxLines - 1) \X SeqsUpTo(PlainLines, MaxLines - 1) :
                   Len(p[1]) + Len(p[2]) <= MaxLines - 1}}

\* keys_to_retain: that of the usage (lines 29-34), no key, one key only,
\* and one with a key twice
KeyLists ==
    {<<"timestamp", "last_price">>, <<>>, <<"last_price">>,
     <<"volume", "timestamp", "volume">>}

\* what the output files hold before the run
StaleLines == <<[kind |-> "text", doc |-> Num(0)]>>

\* The files and the run of process_json under way: the lines of the input
\* file, keys_to_retain, the lines of the two output files, the number of
\* lines read, the position jpc ("start", "reading", "returned", "raised")
\* and the exception raised.
VARIABLES infile, keys_to_retain, outfile1, outfile2, lineno, jpc, jexc

files == <<infile, keys_to_retain, outfile1, outfile2, lineno, jpc, jexc>>

(***************************************************************************)
(* One call of calculate_pf_nav(txns, nav_mgr, base_nav).                  *)
(***************************************************************************)
\* The rest of the state: the arguments of the invocation under way, its
\* position pc ("call", "nav", "txn", "returned", "raised"), its locals and
\* the exception it raised.
VARIABLES txns, nav_mgr, base_nav, pc, relevant_dates, di, ti, portfolio_units,
          curr_mf_units, current_nav, pf_navs, exc

engine == <<txns, nav_mgr, base_nav, pc, relevant_dates, di, ti, portfolio_units,
            curr_mf_units, current_nav, pf_navs, exc, done>>

vars == <<engine, files>>

\* no run of process_json is under way
FilesIdle ==
    /\ infile = <<>>
    /\ keys_to_retain = <<>>
    /\ outfile1 = <<>>
    /\ outfile2 = <<>>
    /\ lineno = 0
    /\ jpc = "idle"
    /\ jexc = ""

inputs == <<txns, nav_mgr, base_nav>>

\* the engine's locals as a record, and their assignment
Locals ==
    [portfolio_units |-> portfolio_units, curr_mf_units |-> curr_mf_units,
     current_nav |-> current_nav, pf_navs |-> pf_navs, exc |-> exc]

SetLocals(st) ==
    /\ portfolio_units' = st.portfolio_units
    /\ curr_mf_units' = st.curr_mf_units
    /\ current_nav' = st.current_nav
    /\ pf_navs' = st.pf_navs
    /\ exc' = st.exc

Init ==
    /\ \E c \in Calls : txns = c.txns /\ nav_mgr = c.nav_mgr /\ base_nav = c.base_nav
    /\ pc = "call"
    /\ relevant_dates = <<>>
    /\ di = 0
    /\ ti = 0
    /\ portfolio_units = DecZero
    /\ curr_mf_units = <<>>
    /\ current_nav = DecZero
    /\ pf_navs = <<>>
    /\ exc = ""
    /\ done = <<>>
    /\ FilesIdle

\* lines 148-149
RaiseNoTxns ==
    /\ pc = "call"
    /\ txns = <<>>
    /\ pc' = "raised"
    /\ exc' = "ValueError"
    /\ UNCHANGED <<inputs, files, done, relevant_dates, di, ti, portfolio_units, curr_mf_units,
                   current_nav, pf_navs>>

\* lines 153-156
RaiseNoDates ==
    /\ pc = "call"
    /\ txns # <<>>
    /\ RelevantDates(txns, nav_mgr) = <<>>
    /\ pc' = "raised"
    /\ exc' = "ValueError"
    /\ UNCHANGED <<inputs, files, done, relevant_dates, di, ti, portfolio_units, curr_mf_units,
                   current_nav, pf_navs>>

\* lines 153-168
Begin ==
    /\ pc = "call"
    /\ txns # <<>>
    /\ RelevantDates(txns, nav_mgr) # <<>>
    /\ relevant_dates' = RelevantDates(txns, nav_mgr)
    /\ SetLocals(InitialLocals(base_nav))
    /\ di' = 1
    /\ pc' = "nav"
    /\ UNCHANGED <<inputs, files, done, ti>>

\* lines 170-176: the next date, its NAV computed and recorded
ComputeNav ==
    /\ pc = "nav"
    /\ di <= Len(relevant_dates)
    /\ \E st \in {NavOfDate(Locals, nav_mgr, relevant_dates[di])} :
           /\ SetLocals(st)
           /\ pc' = IF st.exc # "" THEN "raised" ELSE "txn"
    /\ ti' = 1
    /\ UNCHANGED <<inputs, files, done, relevant_dates, di>>

\* lines 179-182: the next transaction of the date
ApplyTxn ==
    /\ pc = "txn"
    /\ ti <= Len(TxnsByDate(txns, relevant_dates[di]))
    /\ \E st \in {ApplyOne(Locals, TxnsByDate(txns, relevant_dates[di])[ti])} :
           /\ SetLocals(st)
           /\ pc' = IF st.exc # "" THEN "raised" ELSE "txn"
    /\ ti' = ti + 1
    /\ UNCHANGED <<inputs, files, done, relevant_dates, di>>

\* line 179, the transactions of the date exhausted: on to the next date
NextDate ==
    /\ pc = "txn"
    /\ ti > Len(TxnsByDate(txns, relevant_dates[di]))
    /\ di' = di + 1
    /\ pc' = "nav"
    /\ UNCHANGED <<inputs, files, done, relevant_dates, ti, portfolio_units, curr_mf_units,
                   current_nav, pf_navs, exc>>

\* line 184
Return ==
    /\ pc = "nav"
    /\ di > Len(relevant_dates)
    /\ pc' = "returned"
    /\ UNCHANGED <<inputs, files, done, relevant_dates, di, ti, portfolio_units, curr_mf_units,
                   current_nav, pf_navs, exc>>

\* the invocation under way is over: it returned, or it raised
Returned == pc = "returned"

Finished == pc \in {"returned", "raised"}

\* what a call leaves: the exception raised, if any, and the series
Outcome(st) == <<st.exc, st.pf_navs>>

\* the arguments of the invocation under way
Call == [txns |-> txns, nav_mgr |-> nav_mgr, base_nav |-> base_nav]

\* calculate_pf_nav is invoked again (a new frame: no local is bound), with
\* the same arguments, with those of an earlier invocation, or with others
CallAgain ==
    /\ Finished
    /\ Call \in RepeatCalls
    /\ Len(done) < MaxCalls - 1
    /\ done' = Append(done, [call |-> Call, outcome |-> Outcome(Locals)])
    /\ \E c \in {Call} \cup {done[i].call : i \in 1..Len(done)} \cup OtherCalls :
           txns' = c.txns /\ nav_mgr' = c.nav_mgr /\ base_nav' = c.base_nav
    /\ pc' = "call"
    /\ relevant_dates' = <<>>
    /\ di' = 0
    /\ ti' = 0
    /\ SetLocals([portfolio_units |-> DecZero, curr_mf_units |-> <<>>,
                  current_nav |-> DecZero, pf_navs |-> <<>>, exc |-> ""])
    /\ UNCHANGED files

Next ==
    \/ RaiseNoTxns
    \/ RaiseNoDates
    \/ Begin
    \/ ComputeNav
    \/ ApplyTxn
    \/ NextDate
    \/ Return
    \/ CallAgain

Spec == Init /\ [][Next]_vars

(***************************************************************************)
(* One run of process_json(input_file, output_file1, output_file2,         *)
(* keys_to_retain), the three files distinct.                              *)
(***************************************************************************)
\* no call of calculate_pf_nav is under way
EngineIdle ==
    /\ txns = <<>>
    /\ nav_mgr = FullNavMgr
    /\ base_nav = DecZero
    /\ pc = "idle"
    /\ relevant_dates = <<>>
    /\ di = 0
    /\ ti = 0
    /\ portfolio_units = DecZero
    /\ curr_mf_units = <<>>
    /\ current_nav = DecZero
    /\ pf_navs = <<>>
    /\ exc = ""
    /\ done = <<>>

InitJson ==
    /\ infile \in Files
    /\ keys_to_retain \in KeyLists
    /\ outfile1 = StaleLines
    /\ outfile2 = StaleLines
    /\ lineno = 0
    /\ jpc = "start"
    /\ jexc = ""
    /\ EngineIdle

\* line 5: the input opened for reading, the outputs opened for writing,
\* which empties them
Open ==
    /\ jpc = "start"
    /\ outfile1' = <<>>
    /\ outfile2' = <<>>
    /\ jpc' = "reading"
    /\ UNCHANGED <<engine, infile, keys_to_retain, lineno, jexc>>

\* lines 6-26: the next line of the input.  An exception leaves the with
\* block, which closes the files with the lines written so far.
ProcessLine ==
    /\ jpc = "reading"
    /\ lineno < Len(infile)
    /\ \E r \in {SplitLine(infile[lineno + 1], keys_to_retain)} :
           IF r.exc # ""
           THEN /\ jpc' = "raised"
                /\ jexc' = r.exc
                /\ UNCHANGED <<outfile1, outfile2, lineno>>
           ELSE /\ outfile1' = Append(outfile1, dump(r.o1))
                /\ outfile2' = Append(outfile2, dump(r.o2))
                /\ lineno' = lineno + 1
                /\ UNCHANGED <<jpc, jexc>>
    /\ UNCHANGED <<engine, infile, keys_to_retain>>

\* line 6, the input exhausted: the files closed, process_json returns
Close ==
    /\ jpc = "reading"
    /\ lineno = Len(infile)
    /\ jpc' = "returned"
    /\ UNCHANGED <<engine, infile, keys_to_retain, outfile1, outfile2, lineno, jexc>>

NextJson ==
    \/ Open
    \/ ProcessLine
    \/ Close

SpecJson == InitJson /\ [][NextJson]_vars

(***************************************************************************)
(* What the claims speak of.                                               *)
(***************************************************************************)
\* the call keeps the assumptions of calculate_pf_nav (lines 55-58) and of
\* the specification: sorted dates, every price in the table, transactions
\* at the table's prices, nothing oversold
ValidInput ==
    /\ nav_mgr = FullNavMgr
    /\ \A i \in 1..Len(txns) : txns[i] \in MarketTxns
    /\ SortedByDate(txns)
    /\ NoOversell(txns)

OutputDates == {pf_navs[i].date : i \in 1..Len(pf_navs)}

\* the dates of the table from the first transaction's date to current_date
TableDatesInRange ==
    {d \in DOMAIN nav_mgr.navs : txns[1].date <= d /\ d <= nav_mgr.current_date}

\* the whole number n as a Decimal
SignedDec(n) == IF n < 0 THEN DecNeg(Dec(0 - n)) ELSE Dec(n)

\* units of fund f bought less sold by the first n transactions of l that
\* are dated in S
RECURSIVE HeldOn(_, _, _, _)
HeldOn(l, f, S, n) ==
    IF n = 0 THEN 0
    ELSE HeldOn(l, f, S, n - 1)
             + (IF l[n].mf_name = f /\ l[n].date \in S THEN sign(l[n]) * UnitsInt(l[n]) ELSE 0)

\* the list l with its transactions dated d replaced by those of new, in the
\* place of the first of them (at the end when l has none)
ReplaceDated(l, d, new) ==
    LET at == {i \in 1..Len(l) : l[i].date = d}
    IN  IF at = {} THEN l \o new
        ELSE SubSeq(l, 1, MinOf(at) - 1) \o new
                 \o SelectSeq(SubSeq(l, MinOf(at) + 1, Len(l)), LAMBDA t : t.date # d)

\* A list that differs from l in the transactions dated d only: one added
\* when l has none, those of l removed when another transaction leads the
\* list, and else those of l changed into one purchase.
AltDated(l, d) ==
    LET buy1 == Txn("MF1", d, "BUY", 3, Price(d, "MF1"))
        buy2 == Txn("MF2", d, "BUY", 1, Price(d, "MF2"))
    IN  IF \A i \in 1..Len(l) : l[i].date # d THEN ReplaceDated(l, d, <<buy1>>)
        ELSE IF l[1].date # d THEN ReplaceDated(l, d, <<>>)
        ELSE IF ReplaceDated(l, d, <<buy1>>) # l THEN ReplaceDated(l, d, <<buy1>>)
        ELSE ReplaceDated(l, d, <<buy2>>)

\* what calculate_pf_nav(l, ..) has recorded when it is through with date d
RecordedUntil(l, d) ==
    LET rd == RelevantDates(l, nav_mgr)
    IN  WalkDates(l, nav_mgr, base_nav, rd, Cardinality({i \in 1..Len(rd) : rd[i] <= d})).pf_navs

\* C1: end-of-day convention.  The NAV recorded for a date d is computed
\* before any transaction dated d is applied: a call whose list differs in
\* the transactions dated d only (added, removed or changed) records the
\* same NAV for d and for every earlier date, and the very same entries up
\* to d when its first transaction has the same date.
EndOfDayConvention ==
    Finished =>
        \A i \in 1..Len(pf_navs) :
            LET d   == pf_navs[i].date
                alt == AltDated(txns, d)
                r   == RecordedUntil(alt, d)
            IN  /\ \A j \in 1..Len(r) : \A k \in 1..i :
                       r[j].date = pf_navs[k].date => r[j].nav = pf_navs[k].nav
                /\ alt[1].date = txns[1].date => r = SubSeq(pf_navs, 1, i)

\* C1 witness: a call that returned, with transactions on a date d after the
\* first whose change leaves the entries up to d alone and moves a later NAV
EndOfDayWitness ==
    /\ Returned
    /\ \E i \in 2..(Len(pf_navs) - 1) :
           LET d == pf_navs[i].date
               r == calculate_pf_nav(AltDated(txns, d), nav_mgr, base_nav)
           IN  /\ TxnsByDate(txns, d) # <<>>
               /\ pf_navs[i].nav # pf_navs[i - 1].nav
               /\ r.exc = ""
               /\ SubSeq(r.pf_navs, 1, i) = SubSeq(pf_navs, 1, i)
               /\ r.pf_navs[i + 1].nav # pf_navs[i + 1].nav

\* the list l without its i-th transaction
RemoveAt(l, i) == SubSeq(l, 1, i - 1) \o SubSeq(l, i + 1, Len(l))

SingleFund(l) == \A i \in 1..Len(l) : l[i].mf_name = l[1].mf_name

\* l[i] sells a part of the units held, not all of them
PartialSell(l, i) == l[i].txn_type = "SELL" /\ HeldInt(l, l[i].mf_name, i) > 0

\* C2: sell-neutrality, for sales at the price of the table.  In a portfolio
\* of a single fund, the series returned for a list with a partial SELL is
\* the series returned for the same list and prices without that SELL.
SellNeutrality ==
    (Returned /\ ValidInput /\ SingleFund(txns)) =>
        \A i \in 1..Len(txns) :
            PartialSell(txns, i) =>
                calculate_pf_nav(RemoveAt(txns, i), nav_mgr, base_nav).pf_navs = pf_navs

\* every fund's held units are zero once the transactions dated up to d are
\* applied, and one of those dated d is a SELL
FullWithdrawalOn(d) ==
    /\ \E i \in 1..Len(txns) : txns[i].date = d /\ txns[i].txn_type = "SELL"
    /\ \A f \in Funds : HeldOn(txns, f, 0..d, Len(txns)) = 0

\* C3: freeze and re-enter.  After a full withdrawal on date w every later
\* date up to and including the date of the next BUY reports the NAV that
\* was reported on w.
FreezeAndReenter ==
    (Returned /\ ValidInput) =>
        \A i \in 1..Len(pf_navs) : \A j \in (i + 1)..Len(pf_navs) :
            (/\ FullWithdrawalOn(pf_navs[i].date)
             /\ \A k \in 1..Len(txns) :
                    ~(pf_navs[i].date < txns[k].date /\ txns[k].date < pf_navs[j].date))
                => pf_navs[j].nav = pf_navs[i].nav

\* C4: a single fund tracks its relative price.  With one transaction, a BUY
\* of fund F at price P, the NAV of every later date k is
\* base_nav * price(k, F) / P (the quotient at the precision of the context).
SingleFundTracksPrice ==
    (Returned /\ Len(txns) = 1 /\ txns[1].txn_type = "BUY") =>
        \A k \in 2..Len(pf_navs) :
            pf_navs[k].nav =
                DecDiv(DecMul(base_nav, nav_mgr.navs[pf_navs[k].date][txns[1].mf_name]),
                       txns[1].nav)

\* C5: the first entry of the series has NAV base_nav, whatever the first
\* date's transactions and prices, and a call that returns has a first entry.
FirstNavIsBase ==
    /\ pf_navs # <<>> => pf_navs[1].nav = base_nav
    /\ Returned => pf_navs # <<>>

\* C5 witness: a call with another base NAV than the default returned a
\* series whose first date has a transaction and whose second NAV has moved
FirstNavWitness ==
    /\ Returned
    /\ base_nav # Dec(1000)
    /\ Len(pf_navs) >= 2
    /\ TxnsByDate(txns, pf_navs[1].date) # <<>>
    /\ pf_navs[1].nav = base_nav
    /\ pf_navs[2].nav # base_nav

\* C6: between dates, portfolio_units is 0 exactly when every fund's held
\* units are zero.
UnitsZeroIffNothingHeld ==
    (pc = "nav" /\ ValidInput) =>
        (IsZero(portfolio_units)
            <=> \A i \in 1..Len(curr_mf_units) : IsZero(curr_mf_units[i].units))

\* C7 as stated: every transaction date from the first transaction's date to
\* current_date is a date of the returned series, and its transactions are
\* applied, whether the date is a key of the price table or not.
TxnDatesAreOutputDates ==
    (Returned /\ SortedByDate(txns)) =>
        /\ \A i \in 1..Len(txns) :
               txns[i].date <= nav_mgr.current_date => txns[i].date \in OutputDates
        /\ \A f \in Funds :
               DictGet(curr_mf_units, f)
                   = SignedDec(HeldOn(txns, f, 0..nav_mgr.current_date, Len(txns)))

\* C7, amended: the dates of the returned series are the dates of the price
\* table from the first transaction's date to current_date, and no others;
\* the transactions applied are those dated on one of these, so that a
\* transaction dated off the table is left out of the holdings.
OutputDatesAreTableDates ==
    Returned =>
        /\ OutputDates = TableDatesInRange
        /\ \A f \in Funds :
               DictGet(curr_mf_units, f)
                   = SignedDec(HeldOn(txns, f, TableDatesInRange, Len(txns)))

\* C7 witness: a call returned whose list has a BUY dated within the range
\* on a date the table lacks; the date is not in the series and the fund is
\* not held
OffTableDateWitness ==
    /\ Returned
    /\ \E i \in 1..Len(txns) :
           /\ txns[i].txn_type = "BUY"
           /\ txns[1].date < txns[i].date
           /\ txns[i].date < nav_mgr.current_date
           /\ txns[i].date \notin DOMAIN nav_mgr.navs
           /\ txns[i].date \notin OutputDates
           /\ IsZero(DictGet(curr_mf_units, txns[i].mf_name))

\* C8: the dates of the returned series are strictly ascending, lie between
\* the first transaction's date and current_date, and the series has exactly
\* one entry for each relevant date (each date of the table in that range).
MonotonicDates ==
    Returned =>
        /\ \A i \in 1..(Len(pf_navs) - 1) : pf_navs[i].date < pf_navs[i + 1].date
        /\ \A i \in 1..Len(pf_navs) :
               txns[1].date <= pf_navs[i].date /\ pf_navs[i].date <= nav_mgr.current_date
        /\ \A d \in TableDatesInRange :
               Cardinality({i \in 1..Len(pf_navs) : pf_navs[i].date = d}) = 1
        /\ Len(pf_navs) = Cardinality(TableDatesInRange)

\* C8 witness: a series of two dates or more, returned for a list that is
\* not in date order and a table with a date before the first transaction
MonotonicDatesWitness ==
    /\ Returned
    /\ Len(pf_navs) >= 2
    /\ ~SortedByDate(txns)
    /\ \E d \in DOMAIN nav_mgr.navs : d \notin OutputDates

\* no date of the table lies between the first transaction and current_date
NoRelevantDate == txns # <<>> /\ TableDatesInRange = {}

\* C9: a call with an empty list, or with no relevant date, raises ValueError
\* and records no series; a call that returns has a series of one entry at
\* least.
InputValidation ==
    /\ (pc # "call" /\ (txns = <<>> \/ NoRelevantDate))
           => (pc = "raised" /\ exc = "ValueError" /\ pf_navs = <<>>)
    /\ Returned => pf_navs # <<>>

\* C9 witness: a call with transactions raised ValueError because
\* current_date is before the first transaction's date
InputValidationWitness ==
    /\ pc = "raised"
    /\ exc = "ValueError"
    /\ txns # <<>>
    /\ nav_mgr.current_date < txns[1].date
    /\ pf_navs = <<>>

\* a fund with nonzero held units has no price in the table on date
MissingPrice(date) ==
    \E i \in 1..Len(curr_mf_units) :
        /\ ~IsZero(curr_mf_units[i].units)
        /\ curr_mf_units[i].fund \notin DOMAIN nav_mgr.navs[date]

\* C10: when the walk comes to a relevant date on which a fund with nonzero
\* holdings has no price while portfolio_units is not 0, the call raises
\* (KeyError) on the spot: no NAV is recorded for the date, nothing is
\* returned.
MissingPriceAborts ==
    [][(/\ pc = "nav"
        /\ di <= Len(relevant_dates)
        /\ ~IsZero(portfolio_units)
        /\ MissingPrice(relevant_dates[di]))
           => (pc' = "raised" /\ exc' = "KeyError" /\ pf_navs' = pf_navs)]_vars

\* C10 witness: the call raised KeyError on a date for which a held fund has
\* no price, after it had recorded the NAVs of the dates before
MissingPriceWitness ==
    /\ pc = "raised"
    /\ exc = "KeyError"
    /\ ~IsZero(portfolio_units)
    /\ MissingPrice(relevant_dates[di])
    /\ pf_navs # <<>>

\* the value get_portfolio_value computes for the date is (Decimal) zero
ZeroValue(date) ==
    /\ get_portfolio_value(nav_mgr, date, curr_mf_units).exc = ""
    /\ IsZero(get_portfolio_value(nav_mgr, date, curr_mf_units).v)

\* C11: degenerate value.  On a date where portfolio_units is not 0 and the
\* value of the portfolio is 0 the call raises instead of recording a NAV:
\* the walk never stands past the NAV of such a date.
DegenerateValueAborts ==
    ValidInput =>
        ~(pc = "txn" /\ ti = 1 /\ ~IsZero(portfolio_units) /\ ZeroValue(relevant_dates[di]))

\* the transactions of l dated ds[1], .., ds[n], date by date, those of one
\* date in the order of l
RECURSIVE ConcatDates(_, _, _)
ConcatDates(l, ds, n) ==
    IF n = 0 THEN <<>>
    ELSE ConcatDates(l, ds, n - 1) \o SelectSeq(l, LAMBDA t : t.date = ds[n])

\* l sorted by date, same-date order kept; and the same of the transactions
\* dated on or after the first transaction of l
SortedList(l) ==
    ConcatDates(l, SortedSeq({l[i].date : i \in 1..Len(l)}), Cardinality({l[i].date : i \in 1..Len(l)}))

SortedFromFirst(l) == SortedList(SelectSeq(l, LAMBDA t : t.date >= l[1].date))

\* C12 as stated: the call on a reordering of the list that keeps the order
\* of same-date transactions (the list sorted by date is one) has the same
\* outcome, the series starting at the earliest date of the list.
SortOrderIndependence ==
    (Finished /\ txns # <<>>) =>
        Outcome(calculate_pf_nav(SortedList(txns), nav_mgr, base_nav)) = Outcome(Locals)

\* C12, amended: the outcome of a call is that of the call on the
\* transactions dated on or after the first transaction of the list, sorted
\* by date with same-date order kept.  So reorderings that keep the date of
\* the first transaction and the order of same-date transactions have the
\* same outcome; the series starts at the first transaction's date, and the
\* transactions dated before it are dropped.
SortOrderBeyondFirst ==
    (Finished /\ txns # <<>>) =>
        /\ Outcome(calculate_pf_nav(SortedFromFirst(txns), nav_mgr, base_nav)) = Outcome(Locals)
        /\ \A i \in 1..Len(pf_navs) : pf_navs[i].date >= txns[1].date

\* C12 witness: a call returned for a list of three whose first transaction
\* is neither the earliest nor the latest and whose later ones are out of
\* date order; the series differs from that of the sorted list
SortOrderWitness ==
    /\ Returned
    /\ Len(txns) = 3
    /\ txns[3].date < txns[1].date
    /\ txns[1].date < txns[2].date
    /\ Len(pf_navs) >= 2
    /\ calculate_pf_nav(SortedList(txns), nav_mgr, base_nav).pf_navs # pf_navs

\* C13: determinism and statelessness.  An invocation leaves what every
\* earlier invocation with the same arguments left (the same exception, the
\* same series), whatever was invoked in between.
Deterministic ==
    Finished =>
        \A i \in 1..Len(done) : done[i].call = Call => done[i].outcome = Outcome(Locals)

\* C13 witness: the third invocation returned a series of two dates or
\* more, with the arguments of the first, after a second invocation with
\* other arguments that raised
DeterministicWitness ==
    /\ Returned
    /\ Len(pf_navs) >= 2
    /\ Len(done) = 2
    /\ done[1].call = Call
    /\ done[2].call # Call
    /\ done[2].outcome[1] = "DivisionByZero"

\* the transaction about to be applied
TxnAtHand == TxnsByDate(txns, relevant_dates[di])[ti]

\* a transaction is about to be applied with portfolio_units zero
AtZeroUnits ==
    /\ pc = "txn"
    /\ ti <= Len(TxnsByDate(txns, relevant_dates[di]))
    /\ IsZero(portfolio_units)

\* C14 as stated: a transaction applied with portfolio_units zero sets
\* portfolio_units to its positive cash value divided by the current NAV,
\* for every transaction.
ReentryBasis ==
    [][AtZeroUnits => portfolio_units' = DecDiv(value(TxnAtHand), current_nav)]_vars

\* C14 amended: a transaction applied with portfolio_units zero sets
\* portfolio_units to its signed cash value divided by the NAV recorded for
\* its date (positive for a purchase, negative for a sale) and leaves that
\* NAV as it is.
ReentryBasisSigned ==
    [][AtZeroUnits =>
          /\ exc' = ""
          /\ portfolio_units' = DecDiv(signed_value(TxnAtHand), current_nav)
          /\ current_nav = pf_navs[Len(pf_navs)].nav
          /\ current_nav' = current_nav]_vars

\* C14 witness: past the first transaction of a date, a purchase made with
\* nothing held any more after a sale of an earlier date, at a NAV that is
\* the one of the date before and not the base NAV
ReentryWitness ==
    /\ pc = "txn"
    /\ ti = 2
    /\ di >= 2
    /\ ValidInput
    /\ TxnsByDate(txns, relevant_dates[di])[1].txn_type = "BUY"
    /\ \E i \in 1..Len(txns) : txns[i].txn_type = "SELL" /\ txns[i].date < relevant_dates[di]
    /\ current_nav # base_nav
    /\ current_nav = pf_navs[di - 1].nav
    /\ portfolio_units = DecDiv(value(TxnsByDate(txns, relevant_dates[di])[1]), current_nav)

\* the funds of which units are held, and the funds priced on the date at hand
FundsHeld == {f \in Funds : ~IsZero(DictGet(curr_mf_units, f))}

FundsPriced == DOMAIN nav_mgr.navs[relevant_dates[di]]

\* C15: the value of the portfolio is summed over the funds of which units
\* are held; while a fund is held and every fund held has its price on the
\* date, a price lacking for a fund sold entirely raises nothing.
WithdrawnFundNeedsNoPrice ==
    ~(/\ exc = "KeyError"
      /\ FundsHeld # {}
      /\ FundsHeld \subseteq FundsPriced)

\* C16: the engine is ACTIVE (portfolio_units > 0) or EMPTY
\* (portfolio_units = 0); with no sale of more than is held, portfolio_units
\* is never negative.
ActiveOrEmpty ==
    ValidInput => (IsZero(portfolio_units) \/ ~portfolio_units.neg)

\* the transactions of the date at hand, in list order, and how many of
\* them have been applied
TxnsAtHand == TxnsByDate(txns, relevant_dates[di])

Applied == ti - 1

\* the locals as the dates before the one at hand left them
BeforeDate == WalkDates(txns, nav_mgr, base_nav, relevant_dates, di - 1)

\* x plus the signed cash values of the first n of ts, each divided by nav
RECURSIVE PlusConverted(_, _, _, _)
PlusConverted(x, ts, nav, n) ==
    IF n = 0 THEN x
    ELSE DecAdd(PlusConverted(x, ts, nav, n - 1), DecDiv(signed_value(ts[n]), nav))

\* the signed units of fund f in the first n of ts
RECURSIVE SignedUnitsOf(_, _, _)
SignedUnitsOf(ts, f, n) ==
    IF n = 0 THEN 0
    ELSE SignedUnitsOf(ts, f, n - 1)
             + (IF ts[n].mf_name = f THEN sign(ts[n]) * UnitsInt(ts[n]) ELSE 0)

\* C17: the transactions of a date are applied in list order, each
\* converted at the one NAV recorded for the date, which is not recomputed
\* between them: portfolio_units is what it was before the date plus their
\* signed cash values over that NAV, and the units held of each fund are
\* what they were plus the fund's signed units, after each of them.
SameDayTxns ==
    pc = "txn" =>
        /\ Len(pf_navs) = di
        /\ current_nav = pf_navs[di].nav
        /\ Applied > 0 =>
               \E before \in {BeforeDate} :
                   /\ portfolio_units
                          = PlusConverted(before.portfolio_units, TxnsAtHand, pf_navs[di].nav,
                                          Applied)
                   /\ \A f \in Funds :
                          DictGet(curr_mf_units, f)
                              = DecAdd(DictGet(before.curr_mf_units, f),
                                       SignedDec(SignedUnitsOf(TxnsAtHand, f, Applied)))

\* C17 witness: a purchase and a sale of one date both applied, with units
\* held from a date before, at a NAV other than the base NAV
SameDayWitness ==
    /\ pc = "txn"
    /\ ValidInput
    /\ di >= 2
    /\ Applied = 2
    /\ TxnsAtHand[1].txn_type # TxnsAtHand[2].txn_type
    /\ ~IsZero(BeforeDate.portfolio_units)
    /\ current_nav # base_nav

\* C18: on date-sorted transactions at the table's prices, none selling
\* more than is held, calculate_pf_nav2 returns the series that
\* calculate_pf_nav returns.
ImplementationsAgree ==
    (Returned /\ ValidInput) =>
        Outcome(calculate_pf_nav2(txns, nav_mgr, base_nav)) = Outcome(Locals)

\* the transactions of the date at hand have all been applied
DateDone == pc = "txn" /\ ti > Len(TxnsAtHand)

\* C19: at the table's prices and with no sale of more than is held, once
\* the transactions of a date are applied, portfolio_units times the NAV
\* recorded for the date is the value of the units held at the prices of
\* the date (the product taken as Decimal takes it).
Conservation ==
    (ValidInput /\ DateDone) =>
        DecMul(portfolio_units, pf_navs[di].nav)
            = get_portfolio_value(nav_mgr, relevant_dates[di], curr_mf_units).v

\* C20: with a positive base NAV and positive prices, at the table's prices
\* and with no sale of more than is held, every NAV recorded is above zero
\* and no division has a zero divisor.
NoDivisionByZero ==
    ValidInput =>
        /\ \A i \in 1..Len(pf_navs) : IsPos(pf_navs[i].nav)
        /\ exc \notin {"DivisionByZero", "InvalidOperation"}

(***************************************************************************)
(* Record splitting in process_json.                                       *)
(***************************************************************************)
\* the members of a dict, as a set of <<key, value>>, and its keys
Members(d) == {<<d[i].key, d[i].value>> : i \in 1..Len(d)}

Keys(d) == {d[i].key : i \in 1..Len(d)}

\* the keys of keys_to_retain
Retain == {keys_to_retain[i] : i \in 1..Len(keys_to_retain)}

\* line i of the input holds a JSON object
IsRecord(i) == loads(infile[i]).exc = "" /\ loads(infile[i]).v.kind = "object"

\* the object of line i of the input, and those of line i of the outputs
Record(i) == loads(infile[i]).v.items

Output1(i) == loads(outfile1[i]).v.items

Output2(i) == loads(outfile2[i]).v.items

\* out holds under k an object of exactly the members part, and holds no k
\* at all when part is empty
HoldsPart(out, k, part) ==
    IF part = {} THEN ~HasItem(out, k)
    ELSE /\ HasItem(out, k)
         /\ ItemOf(out, k).kind = "object"
         /\ Members(ItemOf(out, k).items) = part
         /\ Cardinality(part) = Len(ItemOf(out, k).items)

\* the member <<k, v>> of the object of line i is split between the outputs
\* when v is an object with a key of keys_to_retain, and copied otherwise
MemberSplit(i, k, v) ==
    IF v.kind = "object" /\ Keys(v.items) \cap Retain # {}
    THEN /\ HoldsPart(Output1(i), k, {m \in Members(v.items) : m[1] \in Retain})
         /\ HoldsPart(Output2(i), k, {m \in Members(v.items) : m[1] \notin Retain})
    ELSE /\ <<k, v>> \in Members(Output1(i))
         /\ <<k, v>> \in Members(Output2(i))

\* line i of each output is the object of line i of the input, split: every
\* member split or copied, and no key from elsewhere
LineSplit(i) ==
    /\ IsRecord(i)
    /\ loads(outfile1[i]).exc = "" /\ loads(outfile1[i]).v.kind = "object"
    /\ loads(outfile2[i]).exc = "" /\ loads(outfile2[i]).v.kind = "object"
    /\ \A m \in Members(Record(i)) : MemberSplit(i, m[1], m[2])
    /\ Keys(Output1(i)) \subseteq Keys(Record(i))
    /\ Keys(Output2(i)) \subseteq Keys(Record(i))

====
